---- MODULE Spec2Model ----
(***************************************************************************)
(* Model of the welch crate (src/src/lib.rs): Builder, segment_size,       *)
(* Welch::segmenting, Welch::dft and Welch::periogram.                     *)
(*                                                                         *)
(* Numbers.  Samples and window weights are small integers.  The overlap   *)
(* factor is an f64 that is a multiple of 1/4 and is stored as its number  *)
(* of quarters (2 is 0.5, 4 is 1.0, 6 is 1.5).  With such operands every   *)
(* f64 product and sum of lib.rs:42-44, 56 and 86 is exact, and the        *)
(* correctly rounded quotient has the integer part of the exact quotient,  *)
(* so the f64 expressions are computed here in exact integer arithmetic.   *)
(* A usize of 2^63 or more is written as its two's complement reading      *)
(* (value - 2^64): usize::MAX is -1, and the wrapped difference l - r of   *)
(* lib.rs:86 with r > l is the negative number l - r.                      *)
(* The transform of rustfft is the forward DFT with twiddle factors in     *)
(* hundredths; a transformed entry is in units of 1/100 and a squared      *)
(* magnitude in units of 1/10000.                                          *)
(***************************************************************************)
EXTENDS Integers, Sequences, FiniteSets, TLC

\* Bounds of the model.
MaxN == 6
MaxK == 5
MaxOverlapQ == 6
MaxCalls == 2

\* Sample values of the signals explored.
SigVals == {-1, 2}

\* Builder::new defaults (lib.rs:31-32); the overlap 0.5 is two quarters.
DefaultNSegment == 4
DefaultOverlapQ == 2

\* The window types W explored: One of examples/welch.rs, and a triangular
\* taper standing for any implementor whose weights are not all equal.
Windows == {"One", "Tri"}

\* overflow-checks of the build: on ("debug") or off ("release").
Profiles == {"debug", "release"}

VARIABLES phase, profile, signal, n_segment, overlap, segment_size, window, ret, ncalls

vars == <<phase, profile, signal, n_segment, overlap, segment_size, window, ret, ncalls>>

fields == <<signal, n_segment, overlap, segment_size, window>>

----------------------------------------------------------------------------
\* Helpers

Min(a, b) == IF a <= b THEN a ELSE b

SeqsUpTo(S, n) == UNION {[1..m -> S] : m \in 0..n}

RECURSIVE Flatten(_)
Flatten(ss) == IF ss = <<>> THEN <<>> ELSE Head(ss) \o Flatten(Tail(ss))

RECURSIVE SumSeq(_)
SumSeq(s) == IF s = <<>> THEN 0 ELSE Head(s) + SumSeq(Tail(s))

\* usize::MAX, the value of `f64::INFINITY as usize`, in two's complement reading.
UsizeMax == -1

\* Complex::new(re, im)
Complex(re, im) == [re |-> re, im |-> im]

\* Complex::norm_sqr
NormSqr(x) == x.re * x.re + x.im * x.im

----------------------------------------------------------------------------
\* Segment size

\* (n as f64 / (k as f64 * (1. - a) + a)).trunc() as usize, a in quarters.
\* The denominator times 4 is d4.  n/0 is +inf (usize::MAX) or, for n = 0,
\* NaN (0); a negative quotient saturates to 0.
TruncDivAsUsize(n, d4) ==
    IF d4 = 0 THEN (IF n = 0 THEN 0 ELSE UsizeMax)
    ELSE IF d4 < 0 THEN 0
    ELSE (4 * n) \div d4

\* Mutant of BuildSegmentSize: the "+ a" of the denominator is dropped.
BuildSegmentSize_NoOverlapTerm(n, k, a) == TruncDivAsUsize(n, k * (4 - a))

\* Builder::build, lib.rs:42-44
BuildSegmentSize(n, k, a) == TruncDivAsUsize(n, k * (4 - a) + a)

\* pub fn segment_size, lib.rs:55-58
segment_size_fn(signal_len, k, a) == TruncDivAsUsize(signal_len, k * (4 - a) + a)

\* W::new(n).weights()
WindowNew(w, n) ==
    IF w = "One" THEN [j \in 1..n |-> 1]
    ELSE [j \in 1..n |-> Min(j, n + 1 - j)]

----------------------------------------------------------------------------
\* Results of a call: a value, or a panic.

Ok(v) == [ok |-> TRUE, val |-> v, msg |-> ""]
Err(m) == [ok |-> FALSE, val |-> <<>>, msg |-> m]

NoRet == [op |-> "none", val |-> <<>>, msg |-> ""]

----------------------------------------------------------------------------
\* Welch::segmenting

\* (l as f64 * a).round() as usize: round half away from zero, a >= 0 in quarters
Round(l, a) == (l * a + 2) \div 4

\* Mutant of Stride: the overlap is ignored and segments are laid end to end.
Stride_NoOverlap(l, a) == l

\* let nel = l - (l as f64 * a).round() as usize; negative: the wrapped value
Stride(l, a) == l - Round(l, a)

\* Mutant of WindowStarts: the window that ends at the last sample is missed.
WindowStarts_OffByOne(n, size) == IF n >= size THEN [i \in 1..(n - size) |-> i - 1] ELSE <<>>

\* slice.windows(size): the 0-based start index of every window
WindowStarts(n, size) == IF n >= size THEN [i \in 1..(n - size + 1) |-> i - 1] ELSE <<>>

\* iter.step_by(step) on a sequence: the first element, then every step-th.
\* A wrapped step (negative here) is larger than any sequence.
StepBy(s, step) ==
    IF step < 0 THEN (IF s = <<>> THEN <<>> ELSE <<s[1]>>)
    ELSE [i \in 1..((Len(s) + step - 1) \div step) |-> s[(i - 1) * step + 1]]

\* Mutant of WindowedSegment: the samples are not multiplied by the weights.
WindowedSegment_NoWeights(start, size, weights) ==
    [j \in 1..Min(size, Len(weights)) |-> Complex(signal[start + j], 0)]

\* segment.iter().zip(weights.iter()).map(|(x, w)| Complex::new(x * w, 0))
WindowedSegment(start, size, weights) ==
    [j \in 1..Min(size, Len(weights)) |-> Complex(signal[start + j] * weights[j], 0)]

segmenting ==
    LET l == segment_size
        nel == Stride(l, overlap)
    IN  IF nel < 0 /\ profile = "debug" THEN Err("attempt to subtract with overflow")
        ELSE IF l = 0 THEN Err("window size must be non-zero")
        ELSE IF nel = 0 THEN Err("assertion failed: step != 0")
        ELSE LET starts == StepBy(WindowStarts(Len(signal), l), nel)
             IN  Ok(Flatten([s \in 1..Len(starts) |-> WindowedSegment(starts[s], l, window)]))

----------------------------------------------------------------------------
\* Welch::dft

\* cos and sin of 2*pi*m/l in hundredths, row l, column m + 1, for l up to 8
Cos100 ==
    << <<100>>,
       <<100, -100>>,
       <<100, -50, -50>>,
       <<100, 0, -100, 0>>,
       <<100, 31, -81, -81, 31>>,
       <<100, 50, -50, -100, -50, 50>>,
       <<100, 62, -22, -90, -90, -22, 62>>,
       <<100, 71, 0, -71, -100, -71, 0, 71>> >>

Sin100 ==
    << <<0>>,
       <<0, 0>>,
       <<0, 87, -87>>,
       <<0, 100, 0, -100>>,
       <<0, 95, 59, -59, -95>>,
       <<0, 87, 87, 0, -87, -87>>,
       <<0, 78, 97, 43, -43, -97, -78>>,
       <<0, 71, 100, 71, 0, -71, -100, -71>> >>

\* x * exp(-2*pi*i*m/l), in hundredths
Twiddle(x, l, m) ==
    LET c == Cos100[l][m + 1]
        s == Sin100[l][m + 1]
    IN  Complex(x.re * c + x.im * s, x.im * c - x.re * s)

\* The forward DFT of one chunk: X[k] = sum over j of x[j] * exp(-2*pi*i*j*k/l)
DftChunk(x) ==
    LET l == Len(x)
        term(k, j) == Twiddle(x[j + 1], l, (j * k) % l)
    IN  [k1 \in 1..l |->
            Complex(SumSeq([j1 \in 1..l |-> term(k1 - 1, j1 - 1).re]),
                    SumSeq([j1 \in 1..l |-> term(k1 - 1, j1 - 1).im]))]

\* slice.chunks(size): consecutive chunks of size entries, the last one shorter
\* when the length is no multiple of size
Chunks(buf, size) ==
    [c \in 1..((Len(buf) + size - 1) \div size) |->
        SubSeq(buf, (c - 1) * size + 1, Min(c * size, Len(buf)))]

\* fft.process(&mut buffer) of a plan of length l: each chunk of l entries is
\* replaced by its DFT.  rustfft panics when the buffer is shorter than l or
\* its length is no multiple of l; a plan of length 0 does nothing.
FftProcess(buffer, l) ==
    IF l = 0 THEN Ok(buffer)
    ELSE IF Len(buffer) < l THEN Err("Provided FFT buffer was too small")
    ELSE IF Len(buffer) % l # 0 THEN Err("Input FFT buffer must be a multiple of FFT length")
    ELSE LET chunks == Chunks(buffer, l)
         IN  Ok(Flatten([c \in 1..Len(chunks) |-> DftChunk(chunks[c])]))

dft ==
    LET buffer == segmenting
    IN  IF buffer.ok THEN FftProcess(buffer.val, segment_size) ELSE buffer

----------------------------------------------------------------------------
\* Welch::periogram

\* Mutant of Accumulate: the running sum is overwritten by the chunk's values.
Accumulate_Overwrite(a, x) == [i \in 1..Min(Len(a), Len(x)) |-> NormSqr(x[i])]

\* a.iter().zip(x.iter()).map(|(a, x)| a + x.norm_sqr()).collect()
Accumulate(a, x) == [i \in 1..Min(Len(a), Len(x)) |-> a[i] + NormSqr(x[i])]

\* chunks.fold(init, Accumulate)
RECURSIVE Fold(_, _)
Fold(a, chunks) ==
    IF chunks = <<>> THEN a ELSE Fold(Accumulate(a, Head(chunks)), Tail(chunks))

\* vec![0f64; n]
Zeros(n) == [i \in 1..n |-> 0]

\* Mutant of periogram: the sum vector has segment_size entries, not half.
periogram_FullLength ==
    LET buffer == dft
    IN  IF buffer.ok THEN Ok(Fold(Zeros(segment_size), Chunks(buffer.val, segment_size)))
        ELSE buffer

periogram ==
    LET buffer == dft
        n == segment_size \div 2
    IN  IF buffer.ok THEN Ok(Fold(Zeros(n), Chunks(buffer.val, segment_size)))
        ELSE buffer

----------------------------------------------------------------------------
\* State machine

\* Builder::new(signal)
Init ==
    /\ phase = "builder"
    /\ profile \in Profiles
    /\ signal \in SeqsUpTo(SigVals, MaxN)
    /\ n_segment = DefaultNSegment
    /\ overlap = DefaultOverlapQ
    /\ segment_size = 0
    /\ window = <<>>
    /\ ret = NoRet
    /\ ncalls = 0

\* Builder::n_segment
SetNSegment(k) ==
    /\ phase = "builder"
    /\ n_segment' = k
    /\ UNCHANGED <<phase, profile, signal, overlap, segment_size, window, ret, ncalls>>

\* Builder::overlap
SetOverlap(a) ==
    /\ phase = "builder"
    /\ overlap' = a
    /\ UNCHANGED <<phase, profile, signal, n_segment, segment_size, window, ret, ncalls>>

\* Builder::build::<W>().  A segment size of usize::MAX makes W::new fail to
\* allocate its weights ("capacity overflow").
Build(w) ==
    /\ phase = "builder"
    /\ LET l == BuildSegmentSize(Len(signal), n_segment, overlap)
       IN  IF l = UsizeMax
           THEN /\ phase' = "panicked"
                /\ ret' = [op |-> "build", val |-> <<>>, msg |-> "capacity overflow"]
                /\ UNCHANGED <<segment_size, window>>
           ELSE /\ phase' = "built"
                /\ segment_size' = l
                /\ window' = WindowNew(w, l)
                /\ UNCHANGED ret
    /\ UNCHANGED <<profile, signal, n_segment, overlap, ncalls>>

\* A call of a method of &self: its value is returned, or it panics.
Call(op, r) ==
    /\ phase = "built"
    /\ ret' = [op |-> op, val |-> r.val, msg |-> r.msg]
    /\ phase' = IF r.ok THEN "built" ELSE "panicked"
    /\ UNCHANGED <<profile, signal, n_segment, overlap, segment_size, window>>

CallSegmenting == Call("segmenting", segmenting) /\ UNCHANGED ncalls

CallDft == Call("dft", dft) /\ UNCHANGED ncalls

\* Mutant of CallPeriogram: segment_size is halved in place instead of into a
\* local.
CallPeriogram_HalvesInPlace ==
    /\ ncalls < MaxCalls
    /\ phase = "built"
    /\ ret' = [op |-> "periogram", val |-> periogram.val, msg |-> periogram.msg]
    /\ phase' = IF periogram.ok THEN "built" ELSE "panicked"
    /\ segment_size' = segment_size \div 2
    /\ ncalls' = ncalls + 1
    /\ UNCHANGED <<profile, signal, n_segment, overlap, window>>

CallPeriogram ==
    /\ ncalls < MaxCalls
    /\ Call("periogram", periogram)
    /\ ncalls' = ncalls + 1

Next ==
    \/ \E k \in 0..MaxK : SetNSegment(k)
    \/ \E a \in 0..MaxOverlapQ : SetOverlap(a)
    \/ \E w \in Windows : Build(w)
    \/ CallSegmenting
    \/ CallDft
    \/ CallPeriogram

Spec == Init /\ [][Next]_vars

----------------------------------------------------------------------------
\* Properties

\* build has returned an estimator (which a later call may have made panic)
Built == phase = "built" \/ (phase = "panicked" /\ ret.op # "build")

\* the last call was op and it returned
Returned(op) == phase = "built" /\ ret.op = op

\* k >= 1 and 0 <= a < 1
ValidParams == n_segment >= 1 /\ overlap >= 0 /\ overlap < 4

\* the number of chunks of segment_size entries in a flat buffer
NumSegments(buf) == Len(buf) \div segment_size

\* l is trunc(n / (k*(1-a) + a)), stated without a division: l*d <= n < (l+1)*d
IsTruncOfQuotient(l, n, k, a) ==
    LET d4 == k * (4 - a) + a
    IN  l >= 0 /\ l * d4 <= 4 * n /\ 4 * n < (l + 1) * d4

\* C1: for k >= 1 and a in [0,1), segment_size(n, k, a) and the segment_size
\* field of the estimator that build returns both equal trunc(n / (k*(1-a) + a));
\* and segment_size(n, 1, 1.0) = n.
C1_SegmentSizeFormula ==
    LET n == Len(signal)
    IN  /\ ValidParams =>
              /\ IsTruncOfQuotient(segment_size_fn(n, n_segment, overlap), n, n_segment, overlap)
              /\ Built => /\ IsTruncOfQuotient(segment_size, n, n_segment, overlap)
                          /\ segment_size = segment_size_fn(n, n_segment, overlap)
        /\ segment_size_fn(n, 1, 4) = n

\* C1 witness: an estimator built with k >= 2 and 0 < a < 1 whose quotient is
\* not an integer, so that the truncation acts.
C1_Witness ==
    /\ phase = "built" /\ n_segment >= 2 /\ overlap \in 1..3
    /\ segment_size >= 1
    /\ (4 * Len(signal)) % (n_segment * (4 - overlap) + overlap) # 0

\* C2: with n_segment = 0 or overlap >= 1.0, build returns no estimator.
C2_InvalidParamsRejected == (n_segment = 0 \/ overlap >= 4) => ~Built

\* C3: every estimator that build returns for k >= 1 and a in [0,1) has
\* 1 <= segment_size <= n.
C3_SegmentSizeInRange ==
    (Built /\ ValidParams) => (1 <= segment_size /\ segment_size <= Len(signal))

\* C4: every estimator built with k >= 1 and a in [0,1) has a stride
\* l - round(l*a) >= 1.  Stated for the estimators whose segment size is at
\* least 1, where the stride does not rest on a zero segment size.
C4_StridePositive ==
    (Built /\ ValidParams /\ segment_size >= 1) => Stride(segment_size, overlap) >= 1

\* C5: whenever periogram returns, its result has exactly segment_size div 2
\* entries, whatever n_segment, overlap and the number of segments are.
C5_PsdLength == Returned("periogram") => Len(ret.val) = segment_size \div 2

\* C5 witness: periogram has returned for an odd segment size of at least 3,
\* with a number of segments that is not n_segment.
C5_Witness ==
    /\ Returned("periogram") /\ segment_size >= 3 /\ segment_size % 2 = 1
    /\ NumSegments(dft.val) # n_segment

\* C6: segmenting, dft and periogram leave the signal and the estimator's fields
\* as they were, and a call of periogram that follows a call of periogram returns
\* the same sequence.
C6_NoMutationDeterministic ==
    [][phase = "built" =>
          /\ fields' = fields
          /\ (ret.op = "periogram" /\ phase' = "built" /\ ret'.op = "periogram")
                 => ret'.val = ret.val]_vars

\* C6 witness: periogram has returned twice, with a PSD that is not all zero.
C6_Witness ==
    /\ Returned("periogram") /\ ncalls = 2
    /\ \E i \in 1..Len(ret.val) : ret.val[i] > 0

SegmentingDefined ==
    /\ 1 <= segment_size /\ segment_size <= Len(signal)
    /\ Stride(segment_size, overlap) # 0

\* the stride as a distance between segment starts; a wrapped stride is only
\* ever used for the segment at 0
StartOf(s) == IF Stride(segment_size, overlap) < 0 THEN 0 ELSE s * Stride(segment_size, overlap)

\* C8: for 1 <= l <= n and a stride >= 1, the buffer that segmenting returns is
\* a whole number of runs of l entries, and entry j of run s is
\* signal[s*stride + j] * weights[j] with imaginary part 0.
C8_SegmentLayout ==
    (Returned("segmenting") /\ SegmentingDefined) =>
        LET l == segment_size
        IN  /\ Len(ret.val) % l = 0
            /\ \A s \in 0..(NumSegments(ret.val) - 1) : \A j \in 1..l :
                  /\ StartOf(s) + j <= Len(signal)
                  /\ ret.val[s * l + j] = Complex(signal[StartOf(s) + j] * window[j], 0)

\* C8 witness: segmenting has returned at least two overlapping segments taken
\* with weights that are not all 1.
C8_Witness ==
    /\ Returned("segmenting") /\ SegmentingDefined
    /\ NumSegments(ret.val) >= 2
    /\ Stride(segment_size, overlap) \in 1..(segment_size - 1)
    /\ \E j \in 1..Len(window) : window[j] # 1

\* C9: for 1 <= l <= n and a stride >= 1, segmenting extracts the
\* floor((n - l) / stride) + 1 segments that start at 0, stride, 2*stride, ...,
\* whatever n_segment is.
C9_SegmentCount ==
    (Returned("segmenting") /\ SegmentingDefined) =>
        LET l == segment_size
            n == Len(signal)
            nel == Stride(l, overlap)
            count == IF nel < 0 THEN 1 ELSE (n - l) \div nel + 1
        IN  /\ Len(ret.val) = count * l
            /\ StartOf(count - 1) <= n - l
            /\ StartOf(count) > n - l \/ nel < 0

\* C9 witness: segmenting has returned more segments than n_segment asked for.
C9_Witness ==
    /\ Returned("segmenting") /\ SegmentingDefined
    /\ n_segment >= 2
    /\ NumSegments(ret.val) > n_segment

\* n = k*l - (k-1)*l*a with l*a an integer, k >= 1 and a in [0,1)
ExactFit(l) ==
    /\ ValidParams /\ l >= 1
    /\ (l * overlap) % 4 = 0
    /\ 4 * Len(signal) = l * (n_segment * (4 - overlap) + overlap)

\* C10: when n = k*l - (k-1)*l*a with l*a an integer, build computes the segment
\* size l and segmenting extracts exactly k segments, the last one being the
\* last l samples of the signal.
C10_ExactFit ==
    \A l \in 1..Len(signal) :
        ExactFit(l) =>
            /\ Built => segment_size = l
            /\ Returned("segmenting") =>
                  /\ Len(ret.val) = n_segment * l
                  /\ \A j \in 1..l :
                        ret.val[(n_segment - 1) * l + j]
                            = Complex(signal[Len(signal) - l + j] * window[j], 0)

\* C10 witness: segmenting has returned for an exact fit of at least two
\* segments that overlap.
C10_Witness ==
    /\ Returned("segmenting") /\ n_segment >= 2 /\ overlap \in 1..3
    /\ \E l \in 1..Len(signal) : ExactFit(l)

====
